---- MODULE Spec2Model ----
(***************************************************************************)
(* TextAnalyzer: the text validation utilities (utils/textValidation.js)   *)
(* and the handlers of the TextAnalyzer application class (app.js).        *)
(*                                                                         *)
(* A JavaScript string is modelled as a sequence of one-character strings. *)
(* Indices into strings are 0-based as in JavaScript (lastIndex, match     *)
(* positions); the character at 0-based position s of text is text[s+1].   *)
(***************************************************************************)
EXTENDS Integers, Sequences, FiniteSets, TLC

(***************************************************************************)
(* Bounds of the model.                                                    *)
(***************************************************************************)
\* the largest number of chunks a text is put together from
MaxChunks == 3
\* the same for the arguments of calls that share the patterns' lastIndex
MaxCallChunks == 2
\* lengths 0..MaxShortLen are tried around MIN_TEXT_LENGTH
MaxShortLen == 50
\* lengths MAX_TEXT_LENGTH-MaxNear..MAX_TEXT_LENGTH+MaxNear are tried
MaxNear == 50
\* the largest number of pending auto-hide timers of the error message
MaxErrorTimers == 2
\* the largest number of handlers suspended at once
MaxAwaiting == 2
\* the largest number of chunks the user puts into the textarea
MaxTextareaChunks == 1
\* the largest number of pending timeouts of showError that have run a part of
\* their delay when the user acts
MaxStarted == 0
\* truncateText is called with every maxLength in -MaxMaxLength..MaxMaxLength
MaxMaxLength == 21
\* the readability formulas are called with every count in 0..MaxCount
MaxCount == 6
\* determineGradeLevel is called with every half grade in -2..MaxGrade
MaxGrade == 14
\* analyzeWordFrequency is called with every minLength in 0..MaxMinLength
MaxMinLength == 2
\* and every maxWords in -MaxWords..MaxWords
MaxWords == 2

(***************************************************************************)
(* Program constants.                                                      *)
(***************************************************************************)
MAX_TEXT_LENGTH == 100000
MIN_TEXT_LENGTH == 10

(***************************************************************************)
(* Characters and character classes of the regular expressions.            *)
(***************************************************************************)
LowerLetters == <<"a","b","c","d","e","f","g","h","i","j","k","l","m",
                  "n","o","p","q","r","s","t","u","v","w","x","y","z">>
UpperLetters == <<"A","B","C","D","E","F","G","H","I","J","K","L","M",
                  "N","O","P","Q","R","S","T","U","V","W","X","Y","Z">>
Digits == {"0","1","2","3","4","5","6","7","8","9"}

Range(s) == {s[i] : i \in 1..Len(s)}

\* \s
IsSpace(c) == c \in {" ", "\t", "\n", "\r"}
\* \w
WordChars == Range(LowerLetters) \cup Range(UpperLetters) \cup Digits \cup {"_"}
IsWordChar(c) == c \in WordChars
\* [.,!?]
IsPunct(c) == c \in {".", ",", "!", "?"}
\* [^\s]
IsNonSpace(c) == ~IsSpace(c)
\* [a-z]
LowerSet == Range(LowerLetters)
\* [aeiouy]
IsVowel(c) == c \in {"a", "e", "i", "o", "u", "y"}

\* String.prototype.toLowerCase, one character
LowerOf ==
    [u \in Range(UpperLetters) |-> LowerLetters[CHOOSE i \in 1..26 : UpperLetters[i] = u]]
ToLowerChar(c) == IF c \in DOMAIN LowerOf THEN LowerOf[c] ELSE c

toLowerCase(text) == [i \in 1..Len(text) |-> ToLowerChar(text[i])]

(***************************************************************************)
(* Regular expressions.  A pattern is an operator of (text, s) giving the  *)
(* 0-based end (exclusive) of the match that starts at 0-based position s, *)
(* or -1 when the pattern does not match at s.  Every pattern used here    *)
(* matches at least one character.                                         *)
(***************************************************************************)
\* the character classes that the patterns repeat with +
InClass(class, c) ==
    CASE class = "\\s" -> IsSpace(c)
      [] class = "[^\\s]" -> IsNonSpace(c)
      [] class = "[.,!?]" -> IsPunct(c)
      [] class = "\\w" -> IsWordChar(c)
      [] class = "[.!?]" -> c \in {".", "!", "?"}
      [] class = "[a-z]" -> c \in LowerSet
      [] class = "[^laeiouy]" -> ~(IsVowel(c) \/ c = "l")
      [] class = "[^aeiouy]" -> ~IsVowel(c)

\* the end of the maximal run of characters of the class that starts at s
RunEnd(class, text, s) ==
    CHOOSE e \in s..Len(text) :
        /\ \A k \in (s+1)..e : InClass(class, text[k])
        /\ (e = Len(text) \/ ~InClass(class, text[e+1]))

\* the literal lit occurs in text at position s
HasLiteralAt(text, s, lit) ==
    /\ s + Len(lit) <= Len(text)
    /\ \A k \in 1..Len(lit) : text[s+k] = lit[k]

\* /(https?:\/\/[^\s]+)/g
URL_REGEX(text, s) ==
    LET p == IF HasLiteralAt(text, s, <<"h","t","t","p","s",":","/","/">>) THEN s + 8
             ELSE IF HasLiteralAt(text, s, <<"h","t","t","p",":","/","/">>) THEN s + 7
             ELSE -1
    IN  IF p # -1 /\ p < Len(text) /\ IsNonSpace(text[p+1])
        THEN RunEnd("[^\\s]", text, p)
        ELSE -1

\* /<[^>]*>/g
HTML_TAG_REGEX(text, s) ==
    IF text[s+1] = "<" /\ \E e \in (s+2)..Len(text) : text[e] = ">"
    THEN CHOOSE e \in (s+2)..Len(text) :
            text[e] = ">" /\ \A k \in (s+2)..(e-1) : text[k] # ">"
    ELSE -1

\* /[^\w\s.,!?-]/g
SPECIAL_CHARS_REGEX(text, s) ==
    IF ~(IsWordChar(text[s+1]) \/ IsSpace(text[s+1]) \/ IsPunct(text[s+1]) \/ text[s+1] = "-")
    THEN s + 1
    ELSE -1

\* /\s+/g
WHITESPACE_REGEX(text, s) ==
    IF IsSpace(text[s+1]) THEN RunEnd("\\s", text, s) ELSE -1

\* /[.,!?]/g: the pattern without its +, one match for each character
PUNCT_REGEX_EachChar(text, s) ==
    IF IsPunct(text[s+1]) THEN s + 1 ELSE -1

\* /[.,!?]+/g
PUNCT_REGEX(text, s) ==
    IF IsPunct(text[s+1]) THEN RunEnd("[.,!?]", text, s) ELSE -1

\* /\b\w+\b/g: a maximal run of word characters
WORD_REGEX(text, s) ==
    IF IsWordChar(text[s+1]) /\ (s = 0 \/ ~IsWordChar(text[s]))
    THEN RunEnd("\\w", text, s)
    ELSE -1

\* /[.!?]+\s*/
SENTENCE_END_REGEX(text, s) ==
    IF text[s+1] \in {".", "!", "?"}
    THEN RunEnd("\\s", text, RunEnd("[.!?]", text, s))
    ELSE -1

\* /\n\s*\n/: \s* is greedy and gives back until a line feed follows, so
\* the match ends at the last line feed of the whitespace after the first
PARAGRAPH_BREAK_REGEX(text, s) ==
    IF text[s+1] = "\n"
    THEN LET w == RunEnd("\\s", text, s + 1)
             feeds == {e \in (s+2)..w : text[e] = "\n"}
         IN  IF feeds # {} THEN CHOOSE e \in feeds : \A k \in feeds : k <= e
             ELSE -1
    ELSE -1

\* /\s/g
SPACE_REGEX(text, s) ==
    IF IsSpace(text[s+1]) THEN s + 1 ELSE -1

\* /\b[a-z]+\b/g: a maximal run of word characters that has letters only
ALPHA_WORD_REGEX(text, s) ==
    IF text[s+1] \in LowerSet /\ (s = 0 \/ ~IsWordChar(text[s]))
    THEN LET e == RunEnd("[a-z]", text, s)
         IN  IF e = Len(text) \/ ~IsWordChar(text[e+1]) THEN e ELSE -1
    ELSE -1

\* /[aeiouy]{1,2}/g
VOWELS_REGEX(text, s) ==
    IF IsVowel(text[s+1])
    THEN IF s + 2 <= Len(text) /\ IsVowel(text[s+2]) THEN s + 2 ELSE s + 1
    ELSE -1

\* /(?:[^aeiouy]es|ed|[^aeiouy]e)$/: the class without its l
SILENT_ENDING_REGEX_NoL(text, s) ==
    LET n == Len(text)
    IN  IF \/ s + 3 = n /\ InClass("[^aeiouy]", text[s+1])
                        /\ text[s+2] = "e" /\ text[s+3] = "s"
           \/ s + 2 = n /\ text[s+1] = "e" /\ text[s+2] = "d"
           \/ s + 2 = n /\ InClass("[^aeiouy]", text[s+1]) /\ text[s+2] = "e"
        THEN n
        ELSE -1

\* /(?:[^laeiouy]es|ed|[^laeiouy]e)$/
SILENT_ENDING_REGEX(text, s) ==
    LET n == Len(text)
    IN  IF \/ s + 3 = n /\ InClass("[^laeiouy]", text[s+1])
                        /\ text[s+2] = "e" /\ text[s+3] = "s"
           \/ s + 2 = n /\ text[s+1] = "e" /\ text[s+2] = "d"
           \/ s + 2 = n /\ InClass("[^laeiouy]", text[s+1]) /\ text[s+2] = "e"
        THEN n
        ELSE -1

\* /^y/
LEADING_Y_REGEX(text, s) ==
    IF s = 0 /\ text[1] = "y" THEN 1 ELSE -1

\* the match of the named pattern at position s
MatchAt(pattern, text, s) ==
    CASE pattern = "URL_REGEX" -> URL_REGEX(text, s)
      [] pattern = "HTML_TAG_REGEX" -> HTML_TAG_REGEX(text, s)
      [] pattern = "SPECIAL_CHARS_REGEX" -> SPECIAL_CHARS_REGEX(text, s)
      [] pattern = "WHITESPACE_REGEX" -> WHITESPACE_REGEX(text, s)
      [] pattern = "PUNCT_REGEX" -> PUNCT_REGEX(text, s)
      [] pattern = "WORD_REGEX" -> WORD_REGEX(text, s)
      [] pattern = "SENTENCE_END_REGEX" -> SENTENCE_END_REGEX(text, s)
      [] pattern = "PARAGRAPH_BREAK_REGEX" -> PARAGRAPH_BREAK_REGEX(text, s)
      [] pattern = "SPACE_REGEX" -> SPACE_REGEX(text, s)
      [] pattern = "ALPHA_WORD_REGEX" -> ALPHA_WORD_REGEX(text, s)
      [] pattern = "VOWELS_REGEX" -> VOWELS_REGEX(text, s)
      [] pattern = "SILENT_ENDING_REGEX" -> SILENT_ENDING_REGEX(text, s)
      [] pattern = "LEADING_Y_REGEX" -> LEADING_Y_REGEX(text, s)

\* the leftmost of the matches, or the result of exec when there is none
Leftmost(matches) ==
    IF matches = {} THEN [found |-> FALSE, index |-> -1, end |-> 0]
    ELSE CHOOSE m \in matches : \A k \in matches : m.index <= k.index

\* RegExp exec: the leftmost match at or after position i
RegExpExec(pattern, text, i) ==
    Leftmost({m \in {[found |-> TRUE, index |-> s, end |-> MatchAt(pattern, text, s)] :
                        s \in i..(Len(text)-1)} : m.end # -1})

\* what test makes of the result m of exec: lastIndex is left at the end of
\* the match, or at 0 when there is none
TestOutcome(m) == [result |-> m.found, lastIndex |-> m.end]

\* RegExp.prototype.test of a global pattern: the search starts at lastIndex
RegExpTest(pattern, text, lastIndex) ==
    IF lastIndex > Len(text)
    THEN [result |-> FALSE, lastIndex |-> 0]
    ELSE TestOutcome(RegExpExec(pattern, text, lastIndex))

\* the match m and the matches that follow it
MatchAndRest(m, from) ==
    IF m.found THEN <<m>> \o from[m.end] ELSE <<>>

\* the successive matches of the pattern in the text: lastIndex is set to 0,
\* then exec is repeated from the end of each match until it finds none
\* (which leaves lastIndex at 0)
AllMatches(pattern, text) ==
    LET from[i \in 0..Len(text)] == MatchAndRest(RegExpExec(pattern, text, i), from)
    IN  from[0]

\* the pieces of the text between the matches, empty pieces included
Pieces(text, matches) ==
    [k \in 1..(Len(matches) + 1) |->
        SubSeq(text,
               IF k = 1 THEN 1 ELSE matches[k-1].end + 1,
               IF k > Len(matches) THEN Len(text) ELSE matches[k].index)]

\* the pieces with the replacement put for every match
Join(pieces, replacement) ==
    LET joined[k \in 1..Len(pieces)] ==
            IF k = 1 THEN pieces[1] ELSE joined[k-1] \o replacement \o pieces[k]
    IN  joined[Len(pieces)]

\* the first of the matches, if any
FirstOnly(matches) == IF matches = <<>> THEN <<>> ELSE <<matches[1]>>

\* String.prototype.replace with a global pattern and a fixed replacement
StringReplace(pattern, text, replacement) ==
    Join(Pieces(text, AllMatches(pattern, text)), replacement)

\* String.prototype.replace with a pattern that is not global: the leftmost
\* match only
StringReplaceFirst(pattern, text, replacement) ==
    Join(Pieces(text, FirstOnly(AllMatches(pattern, text))), replacement)

\* the texts of the matches
MatchedTexts(text, matches) ==
    [k \in 1..Len(matches) |-> SubSeq(text, matches[k].index + 1, matches[k].end)]

\* String.prototype.match with a global pattern: the matches in order; the
\* empty sequence stands for null (an array of matches is never empty)
StringMatch(pattern, text) ==
    MatchedTexts(text, AllMatches(pattern, text))

\* String.prototype.split with a pattern that matches no empty string
StringSplit(pattern, text) ==
    Pieces(text, AllMatches(pattern, text))

\* Array.prototype.filter(Boolean) on strings: the empty strings go
FilterBoolean(pieces) ==
    SelectSeq(pieces, LAMBDA piece : piece # <<>>)

\* String.prototype.trim
trim(text) ==
    IF \A k \in 1..Len(text) : IsSpace(text[k]) THEN <<>>
    ELSE LET first == CHOOSE i \in 1..Len(text) :
                         ~IsSpace(text[i]) /\ \A k \in 1..(i-1) : IsSpace(text[k])
             last  == CHOOSE j \in 1..Len(text) :
                         ~IsSpace(text[j]) /\ \A k \in (j+1)..Len(text) : IsSpace(text[k])
         IN  SubSeq(text, first, last)

(***************************************************************************)
(* utils/textValidation.js                                                 *)
(***************************************************************************)
\* a message: the template literal and the values interpolated into it
Message(template, args) == [template |-> template, args |-> args]
NoMessage == Message("", <<>>)

\* validateText with text.length <= MIN_TEXT_LENGTH as the too-short test
validateLength_ExclusiveMin(length) ==
    IF length = 0
    THEN [isValid |-> FALSE, message |-> Message("Please enter some text to analyze.", <<>>)]
    ELSE IF length <= MIN_TEXT_LENGTH
    THEN [isValid |-> FALSE,
          message |-> Message("Text is too short. Minimum length is ${MIN_TEXT_LENGTH} characters.",
                              <<MIN_TEXT_LENGTH>>)]
    ELSE IF length > MAX_TEXT_LENGTH
    THEN [isValid |-> FALSE,
          message |-> Message("Text is too long. Maximum length is ${MAX_TEXT_LENGTH} characters.",
                              <<MAX_TEXT_LENGTH>>)]
    ELSE [isValid |-> TRUE, message |-> NoMessage]

\* validateText depends on its argument through text.length only
\* (!text holds of a string exactly when its length is 0)
validateLength(length) ==
    IF length = 0
    THEN [isValid |-> FALSE, message |-> Message("Please enter some text to analyze.", <<>>)]
    ELSE IF length < MIN_TEXT_LENGTH
    THEN [isValid |-> FALSE,
          message |-> Message("Text is too short. Minimum length is ${MIN_TEXT_LENGTH} characters.",
                              <<MIN_TEXT_LENGTH>>)]
    ELSE IF length > MAX_TEXT_LENGTH
    THEN [isValid |-> FALSE,
          message |-> Message("Text is too long. Maximum length is ${MAX_TEXT_LENGTH} characters.",
                              <<MAX_TEXT_LENGTH>>)]
    ELSE [isValid |-> TRUE, message |-> NoMessage]

validateText(text) == validateLength(Len(text))

\* sanitizeText with the URLs removed before the tags
sanitizeText_UrlsFirst(text) ==
    IF text = <<>> THEN <<>>
    ELSE trim(StringReplace("WHITESPACE_REGEX",
                StringReplace("HTML_TAG_REGEX",
                    StringReplace("URL_REGEX", text, <<>>), <<>>), <<" ">>))

\* sanitizeText without the final trim
sanitizeText_NoTrim(text) ==
    IF text = <<>> THEN <<>>
    ELSE StringReplace("WHITESPACE_REGEX",
            StringReplace("URL_REGEX",
                StringReplace("HTML_TAG_REGEX", text, <<>>), <<>>), <<" ">>)

sanitizeText(text) ==
    IF text = <<>> THEN <<>>
    ELSE trim(StringReplace("WHITESPACE_REGEX",
                StringReplace("URL_REGEX",
                    StringReplace("HTML_TAG_REGEX", text, <<>>), <<>>), <<" ">>))

normalizeText(text) ==
    trim(StringReplace("PUNCT_REGEX",
            StringReplace("WHITESPACE_REGEX", toLowerCase(text), <<" ">>), <<".">>))


\* String.prototype.slice and Array.prototype.slice: a negative index counts
\* from the end, both indices are clamped to 0..length
slice(seq, start, end) ==
    LET n == Len(seq)
        from == IF start < 0 THEN (IF n + start < 0 THEN 0 ELSE n + start)
                ELSE (IF start > n THEN n ELSE start)
        to == IF end < 0 THEN (IF n + end < 0 THEN 0 ELSE n + end)
              ELSE (IF end > n THEN n ELSE end)
    IN  SubSeq(seq, from + 1, to)

Ellipsis == <<".", ".", ".">>

truncateText(text, maxLength) ==
    IF Len(text) <= maxLength THEN text
    ELSE slice(text, 0, maxLength) \o Ellipsis

\* the lastIndex left in the two patterns that sanitizeText passes to replace
\* (replace resets it; the early return for the empty string touches nothing)
sanitizeTextLastIndex(text, r) ==
    IF text = <<>> THEN r
    ELSE [url |-> 0, html |-> 0, special |-> r.special]

UnsafeMessage == Message("Text contains potentially unsafe content (URLs or HTML tags).", <<>>)
SpecialCharsMessage == Message("Text contains special characters that may affect analysis accuracy.", <<>>)

\* the result of checkTextSafety and the lastIndex that its three tests leave
checkTextSafetyOutcome(containsUrls, containsHtml, containsSpecialChars) ==
    [result |-> IF containsUrls.result \/ containsHtml.result
                THEN [isSafe |-> FALSE, message |-> UnsafeMessage]
                ELSE IF containsSpecialChars.result
                THEN [isSafe |-> TRUE, message |-> SpecialCharsMessage]
                ELSE [isSafe |-> TRUE, message |-> NoMessage],
     regs |-> [url |-> containsUrls.lastIndex,
               html |-> containsHtml.lastIndex,
               special |-> containsSpecialChars.lastIndex]]

\* r: the lastIndex of URL_REGEX, HTML_TAG_REGEX and SPECIAL_CHARS_REGEX before
\* the call; regs: their lastIndex after it
checkTextSafety(text, r) ==
    checkTextSafetyOutcome(RegExpTest("URL_REGEX", text, r.url),
                           RegExpTest("HTML_TAG_REGEX", text, r.html),
                           RegExpTest("SPECIAL_CHARS_REGEX", text, r.special))

(***************************************************************************)
(* utils/textAnalysis.js                                                   *)
(***************************************************************************)
\* Number.prototype.toFixed(2) of the quotient a / b of two counts: the
\* nearest multiple of 1/100, the larger one on a tie, written with two
\* decimals.  (The quotient of the doubles rounds as the exact quotient does
\* unless it is an odd multiple of 1/200 that no double equals, which takes
\* a divisor that is a multiple of 40.)
toFixed2(a, b) ==
    LET n == (200 * a + b) \div (2 * b)
    IN  ToString(n \div 100) \o "." \o ToString((n % 100) \div 10) \o ToString(n % 10)

\* the object that calculateBasicMetrics returns for the five counts; the
\* avgWordLength is the string of toFixed or the number 0
basicMetrics(charCount, charNoSpacesCount, wordCount, sentenceCount, paragraphCount) ==
    [charCount |-> charCount,
     charNoSpacesCount |-> charNoSpacesCount,
     wordCount |-> wordCount,
     sentenceCount |-> sentenceCount,
     paragraphCount |-> paragraphCount,
     avgWordLength |-> IF wordCount > 0
                       THEN [type |-> "string", value |-> toFixed2(charNoSpacesCount, wordCount)]
                       ELSE [type |-> "number", value |-> 0]]

\* calculateBasicMetrics without the filter(Boolean) of its two splits
calculateBasicMetrics_NoFilter(text) ==
    basicMetrics(Len(text),
                 Len(StringReplace("SPACE_REGEX", text, <<>>)),
                 Len(StringMatch("WORD_REGEX", normalizeText(text))),
                 Len(StringSplit("SENTENCE_END_REGEX", text)),
                 Len(StringSplit("PARAGRAPH_BREAK_REGEX", text)))

\* calculateBasicMetrics with the whitespace left in charNoSpacesCount
calculateBasicMetrics_SpacesCounted(text) ==
    basicMetrics(Len(text),
                 Len(text),
                 Len(StringMatch("WORD_REGEX", normalizeText(text))),
                 Len(FilterBoolean(StringSplit("SENTENCE_END_REGEX", text))),
                 Len(FilterBoolean(StringSplit("PARAGRAPH_BREAK_REGEX", text))))

calculateBasicMetrics(text) ==
    basicMetrics(Len(text),
                 Len(StringReplace("SPACE_REGEX", text, <<>>)),
                 Len(StringMatch("WORD_REGEX", normalizeText(text))),
                 Len(FilterBoolean(StringSplit("SENTENCE_END_REGEX", text))),
                 Len(FilterBoolean(StringSplit("PARAGRAPH_BREAK_REGEX", text))))

\* syllables ? syllables.length : 1
lengthOr1(syllables) == IF syllables # <<>> THEN Len(syllables) ELSE 1

\* countSyllablesInWord without the 1 that stands in for no vowel group
countSyllablesInWord_NoFallback(word) ==
    IF Len(toLowerCase(word)) <= 3 THEN 1
    ELSE Len(StringMatch("VOWELS_REGEX",
                StringReplaceFirst("LEADING_Y_REGEX",
                    StringReplaceFirst("SILENT_ENDING_REGEX", toLowerCase(word), <<>>),
                    <<>>)))

countSyllablesInWord(word) ==
    IF Len(toLowerCase(word)) <= 3 THEN 1
    ELSE lengthOr1(StringMatch("VOWELS_REGEX",
                StringReplaceFirst("LEADING_Y_REGEX",
                    StringReplaceFirst("SILENT_ENDING_REGEX", toLowerCase(word), <<>>),
                    <<>>)))

\* words.reduce((count, word) => count + countSyllablesInWord(word), 0)
reduceSyllables(words) ==
    LET reduce[k \in 0..Len(words)] ==
            IF k = 0 THEN 0 ELSE reduce[k-1] + countSyllablesInWord(words[k])
    IN  reduce[Len(words)]

countSyllables(text) ==
    reduceSyllables(StringMatch("ALPHA_WORD_REGEX", toLowerCase(text)))

(***************************************************************************)
(* Numbers that are not integers.  A double is modelled by the exact       *)
(* fraction num / den in lowest terms with den > 0, and NaN, Infinity and  *)
(* -Infinity by NotFinite; the rounding of a double to 53 bits is left out.*)
(***************************************************************************)
RECURSIVE GCD(_, _)
GCD(a, b) == IF b = 0 THEN a ELSE GCD(b, a % b)

Abs(n) == IF n < 0 THEN 0 - n ELSE n

NotFinite == [num |-> 0, den |-> 0]

\* the fraction n / d of two integers, d # 0
Ratio(n, d) ==
    LET g == GCD(Abs(n), Abs(d))
        sign == IF d < 0 THEN -1 ELSE 1
    IN  [num |-> sign * (n \div g), den |-> sign * (d \div g)]

\* the operator / on two integers: a division by 0 gives NaN or Infinity
Divide(a, b) == IF b = 0 THEN NotFinite ELSE Ratio(a, b)

\* the operators *, + and - on two numbers
Times(x, y) ==
    IF x.den = 0 \/ y.den = 0 THEN NotFinite
    ELSE LET g1 == GCD(Abs(x.num), y.den)
             g2 == GCD(Abs(y.num), x.den)
         IN  Ratio((x.num \div g1) * (y.num \div g2), (x.den \div g2) * (y.den \div g1))

Plus(x, y) ==
    IF x.den = 0 \/ y.den = 0 THEN NotFinite
    ELSE LET g == GCD(x.den, y.den)
         IN  Ratio(x.num * (y.den \div g) + y.num * (x.den \div g), (x.den \div g) * y.den)

Minus(x, y) == Plus(x, [num |-> 0 - y.num, den |-> y.den])

\* Math.round: the nearest integer, the larger one on a tie
MathRound(x) == (2 * x.num + x.den) \div (2 * x.den)

\* calculateFleschReadingEase with the guard on wordCount only
calculateFleschReadingEase_WordGuardOnly(wordCount, sentenceCount, syllableCount) ==
    IF wordCount = 0 THEN Ratio(0, 1)
    ELSE Minus(Minus(Ratio(206835, 1000),
                     Times(Ratio(1015, 1000), Divide(wordCount, sentenceCount))),
               Times(Ratio(846, 10), Divide(syllableCount, wordCount)))

calculateFleschReadingEase(wordCount, sentenceCount, syllableCount) ==
    IF wordCount = 0 \/ sentenceCount = 0 THEN Ratio(0, 1)
    ELSE Minus(Minus(Ratio(206835, 1000),
                     Times(Ratio(1015, 1000), Divide(wordCount, sentenceCount))),
               Times(Ratio(846, 10), Divide(syllableCount, wordCount)))

calculateFleschKincaidGrade(wordCount, sentenceCount, syllableCount) ==
    IF wordCount = 0 \/ sentenceCount = 0 THEN Ratio(0, 1)
    ELSE Minus(Plus(Times(Ratio(39, 100), Divide(wordCount, sentenceCount)),
                    Times(Ratio(118, 10), Divide(syllableCount, wordCount))),
               Ratio(1559, 100))

calculateColemanLiauIndex(charCount, wordCount, sentenceCount) ==
    IF wordCount = 0 \/ sentenceCount = 0 THEN Ratio(0, 1)
    ELSE LET L == Times(Divide(charCount, wordCount), Ratio(100, 1))
             S == Times(Divide(sentenceCount, wordCount), Ratio(100, 1))
         IN  Minus(Minus(Times(Ratio(588, 10000), L), Times(Ratio(296, 1000), S)),
                   Ratio(158, 10))

\* getOrdinalSuffix without the exceptions for 11, 12 and 13
getOrdinalSuffix_NoTeens(num) ==
    LET j == num % 10
    IN  IF j = 1 THEN "st"
        ELSE IF j = 2 THEN "nd"
        ELSE IF j = 3 THEN "rd"
        ELSE "th"

getOrdinalSuffix(num) ==
    LET j == num % 10
        k == num % 100
    IN  IF j = 1 /\ k # 11 THEN "st"
        ELSE IF j = 2 /\ k # 12 THEN "nd"
        ELSE IF j = 3 /\ k # 13 THEN "rd"
        ELSE "th"

determineGradeLevel(fleschKincaidGrade, colemanLiauIndex) ==
    LET averageGrade == Times(Plus(fleschKincaidGrade, colemanLiauIndex), Ratio(1, 2))
        roundedGrade == MathRound(averageGrade)
    IN  IF roundedGrade <= 0 THEN "Kindergarten"
        ELSE IF roundedGrade >= 13 THEN "College level"
        ELSE ToString(roundedGrade) \o getOrdinalSuffix(roundedGrade) \o " grade"

SENTIMENT_WORDS ==
    [positive |-> <<
        <<"g","o","o","d">>,
        <<"g","r","e","a","t">>,
        <<"e","x","c","e","l","l","e","n","t">>,
        <<"a","m","a","z","i","n","g">>,
        <<"w","o","n","d","e","r","f","u","l">>,
        <<"f","a","n","t","a","s","t","i","c">>,
        <<"t","e","r","r","i","f","i","c">>,
        <<"o","u","t","s","t","a","n","d","i","n","g">>,
        <<"s","u","p","e","r","b">>,
        <<"b","r","i","l","l","i","a","n","t">>,
        <<"a","w","e","s","o","m","e">>,
        <<"f","a","b","u","l","o","u","s">>,
        <<"s","p","e","c","t","a","c","u","l","a","r">>,
        <<"p","e","r","f","e","c","t">>,
        <<"d","e","l","i","g","h","t","f","u","l">>,
        <<"p","l","e","a","s","a","n","t">>,
        <<"h","a","p","p","y">>,
        <<"j","o","y","f","u","l">>,
        <<"l","o","v","e">>,
        <<"l","i","k","e">>,
        <<"b","e","a","u","t","i","f","u","l">>,
        <<"b","e","s","t">>,
        <<"b","e","t","t","e","r">>,
        <<"i","m","p","r","e","s","s","i","v","e">>,
        <<"p","o","s","i","t","i","v","e">>,
        <<"r","e","c","o","m","m","e","n","d","e","d">>,
        <<"w","o","r","t","h">>,
        <<"h","e","l","p","f","u","l">>,
        <<"s","u","c","c","e","s","s">>,
        <<"s","u","c","c","e","s","s","f","u","l">>,
        <<"s","u","c","c","e","e","d">>,
        <<"p","l","e","a","s","e","d">>,
        <<"e","n","j","o","y">>,
        <<"e","n","j","o","y","e","d">>,
        <<"g","l","a","d">>,
        <<"t","h","r","i","l","l","e","d">>>>,
     negative |-> <<
        <<"b","a","d">>,
        <<"t","e","r","r","i","b","l","e">>,
        <<"a","w","f","u","l">>,
        <<"h","o","r","r","i","b","l","e">>,
        <<"p","o","o","r">>,
        <<"d","i","s","a","p","p","o","i","n","t","i","n","g">>,
        <<"d","i","s","a","p","p","o","i","n","t","e","d">>,
        <<"w","o","r","s","t">>,
        <<"w","a","s","t","e">>,
        <<"u","s","e","l","e","s","s">>,
        <<"d","i","f","f","i","c","u","l","t">>,
        <<"h","a","r","d">>,
        <<"u","g","l","y">>,
        <<"b","o","r","i","n","g">>,
        <<"a","n","n","o","y","i","n","g">>,
        <<"h","a","t","e">>,
        <<"d","i","s","l","i","k","e">>,
        <<"n","e","g","a","t","i","v","e">>,
        <<"p","r","o","b","l","e","m">>,
        <<"i","s","s","u","e">>,
        <<"f","a","i","l">>,
        <<"f","a","i","l","e","d">>,
        <<"f","a","i","l","u","r","e">>,
        <<"w","r","o","n","g">>,
        <<"e","r","r","o","r">>,
        <<"m","i","s","t","a","k","e">>,
        <<"c","o","n","c","e","r","n">>,
        <<"w","o","r","r","i","e","d">>,
        <<"w","o","r","r","y">>,
        <<"s","a","d">>,
        <<"u","n","h","a","p","p","y">>,
        <<"u","n","f","o","r","t","u","n","a","t","e">>,
        <<"t","r","o","u","b","l","e">>,
        <<"u","n","r","e","l","i","a","b","l","e">>,
        <<"f","r","u","s","t","r","a","t","i","n","g">>,
        <<"f","r","u","s","t","r","a","t","i","o","n">>,
        <<"f","r","u","s","t","r","a","t","e">>>>]

\* Array.prototype.includes
includes(list, word) == \E i \in 1..Len(list) : list[i] = word

\* the words of the list for which the loop of analyzeSentiment counts
countIncluded(list, wordList) ==
    Cardinality({i \in 1..Len(wordList) : includes(list, wordList[i])})

\* the object that analyzeSentiment returns for the two counts
sentimentResult(positiveCount, negativeCount) ==
    [sentiment |-> IF positiveCount > negativeCount THEN "positive"
                   ELSE IF negativeCount > positiveCount THEN "negative"
                   ELSE "neutral",
     positiveCount |-> positiveCount,
     negativeCount |-> negativeCount,
     score |-> positiveCount - negativeCount]

\* analyzeSentiment from its wordList on
sentimentOfWords(wordList) ==
    sentimentResult(countIncluded(SENTIMENT_WORDS.positive, wordList),
                    countIncluded(SENTIMENT_WORDS.negative, wordList))

\* analyzeSentiment on the words of the text as it is, not normalized
analyzeSentiment_NotNormalized(text) ==
    sentimentOfWords(StringMatch("WORD_REGEX", text))

analyzeSentiment(text) ==
    sentimentOfWords(StringMatch("WORD_REGEX", normalizeText(text)))

\* A value of a property is a record of its type and value: a number, a
\* string (the parts it was put together from), the function Object, the
\* object Object.prototype, or undefined.

\* the names of Object.prototype that are words in lower case
ObjectPrototype ==
    [constructor |-> <<"c","o","n","s","t","r","u","c","t","o","r">>,
     proto |-> <<"_","_","p","r","o","t","o","_","_">>]

\* wordFreq is the object literal {}: the sequence of its own properties
\* <<key, value>> in the order of their creation.  wordFreq[word] reads the own
\* property or, when there is none, the property of Object.prototype.
getProperty(wordFreq, word) ==
    IF \E i \in 1..Len(wordFreq) : wordFreq[i][1] = word
    THEN wordFreq[CHOOSE i \in 1..Len(wordFreq) : wordFreq[i][1] = word][2]
    ELSE IF word = ObjectPrototype.constructor THEN [type |-> "function", value |-> "Object"]
    ELSE IF word = ObjectPrototype.proto THEN [type |-> "object", value |-> "Object.prototype"]
    ELSE [type |-> "undefined", value |-> 0]

\* (value || 0) + 1: a count goes up by one, undefined becomes 1, and a
\* function, an object or a string is converted to a string that "1" is
\* appended to
orZeroPlusOne(value) ==
    CASE value.type = "undefined" -> [type |-> "number", value |-> 1]
      [] value.type = "number" -> [type |-> "number", value |-> value.value + 1]
      [] value.type = "string" -> [type |-> "string", value |-> Append(value.value, "1")]
      [] value.type = "function" -> [type |-> "string", value |-> <<"String(Object)", "1">>]
      [] value.type = "object" -> [type |-> "string", value |-> <<"[object Object]", "1">>]

\* wordFreq[word] = value.  __proto__ is an accessor of Object.prototype; its
\* setter ignores a value that is not an object, and no own property is made.
setProperty(wordFreq, word, value) ==
    IF word = ObjectPrototype.proto THEN wordFreq
    ELSE IF \E i \in 1..Len(wordFreq) : wordFreq[i][1] = word
    THEN [i \in 1..Len(wordFreq) |->
             IF wordFreq[i][1] = word THEN <<word, value>> ELSE wordFreq[i]]
    ELSE Append(wordFreq, <<word, value>>)

\* the callback of words.forEach
countWord(wordFreq, word, minLength) ==
    IF Len(word) > minLength
    THEN setProperty(wordFreq, word, orZeroPlusOne(getProperty(wordFreq, word)))
    ELSE wordFreq

\* wordFreq after words.forEach
countWords(words, minLength) ==
    LET wordFreq[k \in 0..Len(words)] ==
            IF k = 0 THEN <<>> ELSE countWord(wordFreq[k-1], words[k], minLength)
    IN  wordFreq[Len(words)]

\* the order of two numbers written in decimal without leading zeros
DecimalLess(a, b) ==
    \/ Len(a) < Len(b)
    \/ /\ Len(a) = Len(b)
       /\ \E i \in 1..Len(a) :
             /\ \A k \in 1..(i-1) : a[k] = b[k]
             /\ \E d \in 0..9, e \in 0..9 :
                   d < e /\ ToString(d) = a[i] /\ ToString(e) = b[i]

\* the largest array index, 2^32 - 2
MaxArrayIndex == <<"4","2","9","4","9","6","7","2","9","4">>

\* a property key that is an array index: a number up to 2^32 - 2 written in
\* decimal without leading zeros
IsArrayIndex(key) ==
    /\ key # <<>>
    /\ \A i \in 1..Len(key) : key[i] \in Digits
    /\ Len(key) = 1 \/ key[1] # "0"
    /\ ~DecimalLess(MaxArrayIndex, key)

\* the place that Object.entries gives the i-th property: the array indices
\* come first in ascending numeric order, the other keys follow in the order
\* of their creation
entryPlace(wordFreq, i) ==
    IF IsArrayIndex(wordFreq[i][1])
    THEN Cardinality({j \in 1..Len(wordFreq) :
                         /\ IsArrayIndex(wordFreq[j][1])
                         /\ DecimalLess(wordFreq[j][1], wordFreq[i][1])}) + 1
    ELSE Cardinality({j \in 1..Len(wordFreq) :
                         IsArrayIndex(wordFreq[j][1]) \/ j < i}) + 1

ObjectEntries(wordFreq) ==
    [r \in 1..Len(wordFreq) |->
        wordFreq[CHOOSE i \in 1..Len(wordFreq) : entryPlace(wordFreq, i) = r]]

\* the comparator ([,a], [,b]) => b - a.  The difference is NaN when a count
\* is not a number, and sort takes a NaN for 0.
compareCounts(a, b) ==
    IF a[2].type = "number" /\ b[2].type = "number" THEN b[2].value - a[2].value ELSE 0

\* Array.prototype.sort with a consistent comparator: by descending count;
\* the sort is stable
sortByCount(entries) ==
    LET n == Len(entries)
        rank(i) == Cardinality({j \in 1..n :
                        \/ compareCounts(entries[j], entries[i]) < 0
                        \/ compareCounts(entries[j], entries[i]) = 0 /\ j < i}) + 1
    IN  [r \in 1..n |-> entries[CHOOSE i \in 1..n : rank(i) = r]]

\* the arrays that Array.prototype.sort can leave.  When the comparator is
\* not consistent (a count that is not a number compares equal to two counts
\* that differ) the order is implementation-defined: any permutation.
sortOutcomes(entries) ==
    IF \A i, j, k \in 1..Len(entries) :
           /\ compareCounts(entries[i], entries[j]) = 0
           /\ compareCounts(entries[j], entries[k]) = 0
           => compareCounts(entries[i], entries[k]) = 0
    THEN {sortByCount(entries)}
    ELSE {[r \in 1..Len(entries) |-> entries[p[r]]] :
             p \in {q \in [1..Len(entries) -> 1..Len(entries)] :
                       \A x, y \in 1..Len(entries) : q[x] = q[y] => x = y}}

\* the arrays that analyzeWordFrequency can return: one, unless the order of
\* the sort is implementation-defined
analyzeWordFrequency(text, minLength, maxWords) ==
    {slice(sorted, 0, maxWords) :
        sorted \in sortOutcomes(ObjectEntries(
                       countWords(StringMatch("WORD_REGEX", normalizeText(text)),
                                  minLength)))}

(***************************************************************************)
(* Input texts: concatenations of at most MaxChunks chunks.                *)
(***************************************************************************)
RECURSIVE Texts(_, _)
Texts(chunks, n) ==
    IF n = 0 THEN {<<>>}
    ELSE LET shorter == Texts(chunks, n - 1)
         IN  shorter \cup {t \o c : t \in shorter, c \in chunks}

HelloHowAreYou == <<"H","e","l","l","o",","," ","w","o","r","l","d","!"," ",
                    "H","o","w"," ","a","r","e"," ","y","o","u","?">>

\* the chunks of the inputs: text, of sanitizeText and normalizeText; call, of
\* direct calls of the core functions; history, of the calls made in two
\* histories; textarea, of what the user types
Chunks ==
    [text |-> { <<"<">>, <<">">>, <<"<","b",">">>, <<"h","t">>,
                <<"t","p",":","/","/","x">>, <<"h","t","t","p",":","/","/">>,
                <<"h","t","t","p","s",":","/","/","x">>, <<" ">>, <<"\n">>,
                <<"a">>, <<",">>, <<"!">>, HelloHowAreYou },
     call |-> { <<"<","b",">">>, <<"h","t","t","p",":","/","/","x">>, <<"@">>,
                <<"a">>,
                <<"j","a","v","a","s","c","r","i","p","t",":",
                  "a","l","e","r","t","(","\"","x","s","s","\"",")">> },
     history |-> { <<"<","b",">">>, <<"a">> },
     textarea |-> { <<"<","b",">","h","e","l","l","o"," ","w","o","r","l","d">>,
                    <<"h","e","l","l","o","\n","\n","w","o","r","l","d">>,
                    <<" "," "," "," "," "," "," "," "," "," ">>,
                    <<"I","n","v","a","l","i","d">> }]

InputTexts ==
    [text |-> Texts(Chunks.text, MaxChunks),
     call |-> Texts(Chunks.call, MaxCallChunks),
     history |-> Texts(Chunks.history, MaxCallChunks),
     textarea |-> Texts(Chunks.textarea, MaxTextareaChunks)]

\* values of text.length given to validateText
Lengths ==
    (0..MaxShortLen) \cup ((MAX_TEXT_LENGTH - MaxNear)..(MAX_TEXT_LENGTH + MaxNear))

(***************************************************************************)
(* State.                                                                  *)
(***************************************************************************)
VARIABLES
    text,       \* the argument of the calls of the core functions
    length,     \* text.length of the argument of validateText
    args,       \* the other arguments of the call, in the order of the parameters
    regs,       \* lastIndex of URL_REGEX, HTML_TAG_REGEX, SPECIAL_CHARS_REGEX
    regs2,      \* the same in a second, independent history of calls
    op,         \* the function, handler or callback that ran last
    out,        \* what it returned
    out2,       \* what it returned in the second history
    textarea,   \* this.textarea.value
    event,      \* the latest event of the user: "input", "analyze" or "clear"
    timers,     \* the pending timeouts of setTimeout, in the order they were set
    analyzeBtn, \* the #analyzeBtn element: disabled
    invoked,    \* the analysis functions the latest handleAnalyze invoked
    analysis,   \* the basicMetrics the latest handleAnalyze gave to updateResults
    error,      \* the .error-message element: class show, textContent
    loading,    \* the loading spinner and the progress bar are displayed
    results,    \* style.display of the .results element
    awaiting,   \* the handlers suspended in ResultsManager.hideResults
    theme       \* data-theme of the page, the item 'text-analyzer-theme' of
                \* localStorage, whether the system prefers the dark scheme;
                \* saved: the item that initialize found, toggled: the user
                \* has toggled the theme since

vars == <<text, length, args, regs, regs2, op, out, out2, textarea, event,
          timers, analyzeBtn, invoked, analysis, error, loading, results,
          awaiting, theme>>

callVars == <<text, length, args, regs, regs2, out, out2>>
uiVars == <<textarea, event, timers, analyzeBtn, invoked, analysis, error,
            loading, results, awaiting, theme>>

NoRegs == [url |-> 0, html |-> 0, special |-> 0]

\* module load
InitCalls ==
    /\ text = <<>>
    /\ length = 0
    /\ args = <<>>
    /\ regs = NoRegs
    /\ regs2 = NoRegs
    /\ op = "none"
    /\ out = <<>>
    /\ out2 = <<>>

\* ThemeManager.setTheme
setTheme(current, newTheme) ==
    [current EXCEPT !.dataTheme = newTheme, !.storage = newTheme]

\* ThemeManager.initialize on a page whose localStorage holds savedTheme
\* ("null": no item) while the system prefers the dark scheme or not
ThemeManagerInitialize(savedTheme, prefersDark) ==
    setTheme([dataTheme |-> "null", storage |-> savedTheme,
              prefersDark |-> prefersDark, saved |-> savedTheme,
              toggled |-> FALSE],
             IF savedTheme # "null" THEN savedTheme
             ELSE IF prefersDark THEN "dark" ELSE "light")

\* the page as index.html gives it and the TextAnalyzer constructor leaves it
InitPage ==
    /\ textarea = <<>>
    /\ event = "none"
    /\ timers = <<>>
    /\ analyzeBtn = [disabled |-> TRUE]
    /\ invoked = {}
    /\ analysis = basicMetrics(0, 0, 0, 0, 0)
    /\ error = [show |-> FALSE, textContent |-> NoMessage]
    /\ loading = FALSE
    /\ results = ""
    /\ awaiting = <<>>

InitUI ==
    /\ InitPage
    /\ theme = ThemeManagerInitialize("null", FALSE)

\* module load and the construction of the TextAnalyzer
Init == InitCalls /\ InitUI

(***************************************************************************)
(* SpecText: sanitizeText and normalizeText applied to every input text.   *)
(***************************************************************************)
InitText ==
    /\ text \in InputTexts.text
    /\ length = Len(text)
    /\ args = <<>>
    /\ regs = NoRegs /\ regs2 = NoRegs
    /\ op = "none" /\ out = <<>> /\ out2 = <<>>
    /\ InitUI

CallSanitizeText ==
    /\ op' = "sanitizeText"
    /\ out' = sanitizeText(text)
    /\ regs' = sanitizeTextLastIndex(text, regs)
    /\ UNCHANGED <<text, length, args, regs2, out2, uiVars>>

CallNormalizeText ==
    /\ op' = "normalizeText"
    /\ out' = normalizeText(text)
    /\ UNCHANGED <<text, length, args, regs, regs2, out2, uiVars>>

\* one call for each input text
NextText ==
    \/ op = "none" /\ CallSanitizeText
    \/ op = "none" /\ CallNormalizeText

SpecText == InitText /\ [][NextText]_vars

(***************************************************************************)
(* SpecValidate: validateText applied to texts of every length in Lengths. *)
(***************************************************************************)
InitValidate ==
    /\ length \in Lengths
    /\ text = <<>>
    /\ args = <<>>
    /\ regs = NoRegs /\ regs2 = NoRegs
    /\ op = "none" /\ out = <<>> /\ out2 = <<>>
    /\ InitUI

CallValidateText ==
    /\ op' = "validateText"
    /\ out' = validateLength(length)
    /\ UNCHANGED <<text, length, args, regs, regs2, out2, uiVars>>

SpecValidate == InitValidate /\ [][op = "none" /\ CallValidateText]_vars

(***************************************************************************)
(* SpecCalls: the core functions called in any order on any argument.      *)
(***************************************************************************)
\* the caller puts the next argument together
AppendChunk(texts, chunks) ==
    /\ \E c \in chunks :
          /\ text \o c \in texts
          /\ text' = text \o c
    /\ length' = Len(text')
    /\ op' = "none"
    /\ out' = <<>>
    /\ out2' = <<>>
    /\ UNCHANGED <<args, regs, regs2, uiVars>>

ResetText ==
    /\ text # <<>>
    /\ text' = <<>>
    /\ length' = 0
    /\ op' = "none"
    /\ out' = <<>>
    /\ out2' = <<>>
    /\ UNCHANGED <<args, regs, regs2, uiVars>>

CallCheckTextSafety ==
    LET call == checkTextSafety(text, regs)
    IN  /\ op' = "checkTextSafety"
        /\ out' = call.result
        /\ regs' = call.regs
        /\ UNCHANGED <<text, length, args, regs2, out2, uiVars>>

NextCalls ==
    \/ AppendChunk(InputTexts.call, Chunks.call)
    \/ ResetText
    \/ CallValidateText
    \/ CallSanitizeText
    \/ CallCheckTextSafety
    \/ CallNormalizeText

SpecCalls == Init /\ [][NextCalls]_vars

(***************************************************************************)
(* SpecHistories: two independent histories of calls of the core           *)
(* functions (two loads of the module), then the same call in both.        *)
(***************************************************************************)
CoreFunctions == {"validateText", "sanitizeText", "checkTextSafety", "normalizeText"}

\* what the call f(t) returns when the patterns have the lastIndex r
ReturnOf(f, t, r) ==
    CASE f = "validateText" -> validateText(t)
      [] f = "sanitizeText" -> sanitizeText(t)
      [] f = "checkTextSafety" -> checkTextSafety(t, r).result
      [] f = "normalizeText" -> normalizeText(t)

\* the lastIndex of the patterns after the call f(t)
LastIndexAfter(f, t, r) ==
    CASE f = "validateText" -> r
      [] f = "sanitizeText" -> sanitizeTextLastIndex(t, r)
      [] f = "checkTextSafety" -> checkTextSafety(t, r).regs
      [] f = "normalizeText" -> r

PriorCall1 ==
    /\ \E f \in CoreFunctions : regs' = LastIndexAfter(f, text, regs)
    /\ op' = "none"
    /\ out' = <<>>
    /\ out2' = <<>>
    /\ UNCHANGED <<text, length, args, regs2, uiVars>>

PriorCall2 ==
    /\ \E f \in CoreFunctions : regs2' = LastIndexAfter(f, text, regs2)
    /\ op' = "none"
    /\ out' = <<>>
    /\ out2' = <<>>
    /\ UNCHANGED <<text, length, args, regs, uiVars>>

CallInBoth ==
    /\ \E f \in CoreFunctions :
          /\ op' = f
          /\ out' = ReturnOf(f, text, regs)
          /\ out2' = ReturnOf(f, text, regs2)
          /\ regs' = LastIndexAfter(f, text, regs)
          /\ regs2' = LastIndexAfter(f, text, regs2)
    /\ UNCHANGED <<text, length, args, uiVars>>

NextHistories ==
    \/ AppendChunk(InputTexts.history, Chunks.history)
    \/ ResetText
    \/ PriorCall1
    \/ PriorCall2
    \/ CallInBoth

SpecHistories == Init /\ [][NextHistories]_vars

(***************************************************************************)
(* Spec: the TextAnalyzer application: the handlers of the user's events   *)
(* and the callbacks of the timeouts and of animationend.                  *)
(***************************************************************************)
AnalysisFunctions ==
    {"sanitizeText", "calculateBasicMetrics", "countSyllables",
     "analyzeSentiment", "analyzeWordFrequency"}

\* CONFIG.DEBOUNCE_DELAY, in ms
DEBOUNCE_DELAY == 300

\* the delay of the timeout of ErrorManager.showError, in ms
AUTO_HIDE_DELAY == 5000

Remove(seq, i) == SubSeq(seq, 1, i - 1) \o SubSeq(seq, i + 1, Len(seq))

\* the places of the pending timeouts that run the callback
TimersOf(pending, callback) ==
    {i \in 1..Len(pending) : pending[i].callback = callback}

\* setTimeout(callback, delay); text is what the callback closes over
setTimeout(pending, callback, closure, delay) ==
    Append(pending, [callback |-> callback, text |-> closure, delay |-> delay,
                     remaining |-> delay])

\* handleTextInput without its clearTimeout
clearTimeout_Forgotten(pending) == pending

\* clearTimeout(this.debounceTimer): this.debounceTimer is the timeout that
\* the latest handleTextInput set; clearing a timeout that has run does nothing
clearTimeout(pending) ==
    IF TimersOf(pending, "validate") = {} THEN pending
    ELSE Remove(pending, CHOOSE i \in TimersOf(pending, "validate") :
                             \A j \in TimersOf(pending, "validate") : j <= i)

\* the timeouts that are due run in the order they were set
Due(pending) ==
    {i \in 1..Len(pending) :
        /\ pending[i].remaining = 0
        /\ \A j \in 1..(i - 1) : pending[j].remaining # 0}

\* the time to the next timeout
NextDue(pending) ==
    IF pending = <<>> THEN 0
    ELSE CHOOSE d \in {pending[i].remaining : i \in 1..Len(pending)} :
             \A i \in 1..Len(pending) : d <= pending[i].remaining

\* d ms pass and no timeout is overdue
Elapse(d) ==
    /\ d > 0
    /\ d <= NextDue(timers)
    /\ timers' = [i \in 1..Len(timers) |->
                     [timers[i] EXCEPT !.remaining = @ - d]]
    /\ op' = "elapse"
    /\ UNCHANGED <<callVars, textarea, event, analyzeBtn, invoked, analysis,
                   error, loading, results, awaiting, theme>>

\* ErrorManager.showError: the message is shown and a timeout will hide it
showError(message, pending) ==
    /\ Cardinality(TimersOf(pending, "hideError")) < MaxErrorTimers
    /\ error' = [show |-> TRUE, textContent |-> message]
    /\ timers' = setTimeout(pending, "hideError", <<>>, AUTO_HIDE_DELAY)

\* ErrorManager.hideError
hideError ==
    error' = [error EXCEPT !.show = FALSE]

\* the timeout set by showError calls ErrorManager.hideError
ErrorAutoHide ==
    /\ \E i \in Due(timers) :
          /\ timers[i].callback = "hideError"
          /\ timers' = Remove(timers, i)
    /\ hideError
    /\ op' = "errorTimer"
    /\ UNCHANGED <<callVars, textarea, event, analyzeBtn, invoked, analysis,
                   loading, results, awaiting, theme>>

\* handleTextInput: the input event of the textarea, whose value is now value
handleTextInput(value) ==
    /\ textarea' = value
    /\ timers' = setTimeout(clearTimeout(timers), "validate", value, DEBOUNCE_DELAY)
    /\ Len(timers') <= MaxErrorTimers + 1
    /\ event' = "input"
    /\ op' = "handleTextInput"
    /\ UNCHANGED <<callVars, analyzeBtn, invoked, analysis, error, loading,
                   results, awaiting, theme>>

\* the callback of the timeout of handleTextInput
DebounceTimeout ==
    /\ \E i \in Due(timers) :
          /\ timers[i].callback = "validate"
          /\ text' = timers[i].text
          /\ IF validateText(timers[i].text).isValid
             THEN /\ hideError
                  /\ timers' = Remove(timers, i)
             ELSE showError(validateText(timers[i].text).message, Remove(timers, i))
    /\ length' = Len(text')
    /\ out' = validateText(text')
    /\ analyzeBtn' = [disabled |-> ~validateText(text').isValid]
    /\ op' = "validate"
    /\ UNCHANGED <<args, regs, regs2, out2, textarea, event, invoked, analysis,
                   loading, results, awaiting, theme>>

\* ResultsManager.hideResults: the caller is suspended until the results
\* element fires animationend
hideResults(caller) ==
    /\ Len(awaiting) < MaxAwaiting
    /\ awaiting' = Append(awaiting, caller)

\* handleAnalyze up to its await: validation, safety check, sanitizing, the
\* loading state and the analysis; updateResults then awaits hideResults. No
\* analysis function throws on a string, so the catch block is not entered.
\* The click on the Analyze button invokes it, and so does Ctrl+Enter in the
\* textarea (handleKeyDown), whatever the state of the button.
handleAnalyze ==
    LET trimmed == trim(textarea)
        validation == validateText(trimmed)
        safetyCheck == checkTextSafety(trimmed, regs)
    IN  /\ op' = "handleAnalyze"
        /\ event' = "analyze"
        /\ IF ~validation.isValid
           THEN /\ showError(validation.message, timers)
                /\ invoked' = {}
                /\ UNCHANGED <<regs, analysis, loading, results, awaiting>>
           ELSE IF ~safetyCheck.result.isSafe
           THEN /\ showError(safetyCheck.result.message, timers)
                /\ regs' = safetyCheck.regs
                /\ invoked' = {}
                /\ UNCHANGED <<analysis, loading, results, awaiting>>
           ELSE /\ regs' = sanitizeTextLastIndex(trimmed, safetyCheck.regs)
                /\ loading' = TRUE
                /\ results' = "none"
                /\ invoked' = AnalysisFunctions
                /\ analysis' = calculateBasicMetrics(sanitizeText(trimmed))
                /\ hideResults("handleAnalyze")
                /\ UNCHANGED <<error, timers>>
        /\ UNCHANGED <<text, length, args, regs2, out, out2, textarea,
                       analyzeBtn, theme>>

\* handleClear up to its await
handleClear ==
    /\ textarea' = <<>>
    /\ analyzeBtn' = [disabled |-> TRUE]
    /\ hideError
    /\ hideResults("handleClear")
    /\ event' = "clear"
    /\ op' = "handleClear"
    /\ UNCHANGED <<callVars, timers, invoked, analysis, loading, results, theme>>

\* animationend reaches the results element, from an animation of its own or
\* of one of its result items, which only elements that are displayed run:
\* the listeners of hideResults hide the element, then every
\* suspended handler resumes; handleAnalyze shows its results and, in its
\* finally block, hides the loading state
AnimationEnd ==
    /\ awaiting # <<>>
    /\ results # "none"
    /\ awaiting' = <<>>
    /\ IF \E i \in 1..Len(awaiting) : awaiting[i] = "handleAnalyze"
       THEN results' = "block" /\ loading' = FALSE
       ELSE results' = "none" /\ UNCHANGED loading
    /\ op' = "animationend"
    /\ UNCHANGED <<callVars, textarea, event, timers, analyzeBtn, invoked,
                   analysis, error, theme>>

\* what the user types or pastes into the textarea, or deletes from it
UserInput ==
    \/ \E c \in Chunks.textarea :
          /\ textarea \o c \in InputTexts.textarea
          /\ handleTextInput(textarea \o c)
    \/ textarea # <<>> /\ handleTextInput(<<>>)

\* the user acts while an error message is fresh or waits until it is hidden:
\* no more than MaxStarted of the pending timeouts of showError have run a
\* part of their delay when the user acts
UserActs ==
    Cardinality({i \in TimersOf(timers, "hideError") :
                    timers[i].remaining < timers[i].delay}) <= MaxStarted

Next ==
    \/ UserActs /\ UserInput
    \/ UserActs /\ handleAnalyze
    \/ UserActs /\ handleClear
    \/ DebounceTimeout
    \/ ErrorAutoHide
    \/ Elapse(NextDue(timers))
    \/ AnimationEnd

Spec == Init /\ [][Next]_vars

(***************************************************************************)
(* Properties of validateText (SpecValidate).                              *)
(***************************************************************************)
\* C4: validateText returns isValid=true with an empty message exactly when
\* 10 <= text.length <= 100000, both bounds inclusive; a longer text fails
\* with a message stating the maximum and a shorter non-empty text fails with
\* a message stating the minimum.
C4_ValidateBounds ==
    op = "validateText" =>
        /\ out.isValid <=> (10 <= length /\ length <= 100000)
        /\ out.isValid => out.message = NoMessage
        /\ length > 100000 =>
              /\ out.message.template
                    = "Text is too long. Maximum length is ${MAX_TEXT_LENGTH} characters."
              /\ out.message.args = <<100000>>
        /\ (0 < length /\ length < 10) =>
              /\ out.message.template
                    = "Text is too short. Minimum length is ${MIN_TEXT_LENGTH} characters."
              /\ out.message.args = <<10>>

\* both inclusive bounds, and both failures, have been validated
C4_Witness ==
    /\ op = "validateText"
    /\ length = 100000
    /\ out.isValid

\* C5: for the empty string validateText fails with the too-short outcome:
\* the message says the text is too short and states the minimum length.
C5_EmptyIsTooShort ==
    (op = "validateText" /\ length = 0) =>
        /\ ~out.isValid
        /\ out.message.template
              = "Text is too short. Minimum length is ${MIN_TEXT_LENGTH} characters."
        /\ out.message.args = <<10>>

(***************************************************************************)
(* Properties of sanitizeText and normalizeText (SpecText).                *)
(***************************************************************************)
\* some < of t is followed, later, by a >
ContainsHtmlTag(t) ==
    \E i \in 1..Len(t) : \E j \in (i+1)..Len(t) : t[i] = "<" /\ t[j] = ">"

\* t has http:// or https:// followed by a character that is not whitespace
ContainsUrl(t) ==
    \E i \in 1..Len(t) :
        \/ /\ i + 7 <= Len(t)
           /\ SubSeq(t, i, i + 6) = <<"h","t","t","p",":","/","/">>
           /\ t[i+7] \notin {" ", "\t", "\n", "\r"}
        \/ /\ i + 8 <= Len(t)
           /\ SubSeq(t, i, i + 7) = <<"h","t","t","p","s",":","/","/">>
           /\ t[i+8] \notin {" ", "\t", "\n", "\r"}

\* C6: sanitizeText is idempotent, also where the removal of a tag or a URL
\* joins the surrounding characters into a new tag or URL.
C6_SanitizeIdempotent ==
    op = "sanitizeText" => sanitizeText(out) = out

\* the removal of the tag of ht<b>tp://x joins ht and tp://x into a URL
C6_Witness ==
    /\ op = "sanitizeText"
    /\ text = <<"h","t","<","b",">","t","p",":","/","/","x">>
    /\ out = <<>>

\* C7: the output of sanitizeText has no HTML tag, no http(s) URL token, no
\* whitespace other than single spaces, none of them leading or trailing; the
\* empty input gives the empty output.
C7_SanitizeOutput ==
    op = "sanitizeText" =>
        /\ ~ContainsHtmlTag(out)
        /\ ~ContainsUrl(out)
        /\ \A i \in 1..Len(out) : out[i] \notin {"\t", "\n", "\r"}
        /\ \A i \in 1..(Len(out) - 1) : ~(out[i] = " " /\ out[i+1] = " ")
        /\ out # <<>> => (out[1] # " " /\ out[Len(out)] # " ")
        /\ text = <<>> => out = <<>>

\* a text with a tag, a URL and whitespace of which something is left
C7_Witness ==
    /\ op = "sanitizeText"
    /\ ContainsHtmlTag(text)
    /\ ContainsUrl(text)
    /\ \E i \in 1..Len(text) : text[i] \in {" ", "\n"}
    /\ out # <<>>

\* the text lower-cased, each maximal run of whitespace as one space, each
\* maximal run of . , ! ? as one '.', without the surrounding whitespace:
\* the positions that start a run or hold another character are kept
RunwiseNormalized(t) ==
    LET n == Len(t)
        Kind(c) == IF c \in {" ", "\t", "\n", "\r"} THEN "space"
                   ELSE IF c \in {".", ",", "!", "?"} THEN "punct"
                   ELSE "other"
        Surrounding(i) ==
            /\ Kind(t[i]) = "space"
            /\ \/ \A k \in 1..i : Kind(t[k]) = "space"
               \/ \A k \in i..n : Kind(t[k]) = "space"
        Kept(i) ==
            /\ ~Surrounding(i)
            /\ \/ Kind(t[i]) = "other"
               \/ i = 1
               \/ Kind(t[i-1]) # Kind(t[i])
        kept == SelectSeq([i \in 1..n |-> i], Kept)
    IN  [k \in 1..Len(kept) |->
            IF Kind(t[kept[k]]) = "space" THEN " "
            ELSE IF Kind(t[kept[k]]) = "punct" THEN "."
            ELSE ToLowerChar(t[kept[k]])]

C10_PunctuationPreserved ==
    op = "normalizeText" =>
        LET IsCommaBangQuestion(c) == c \in {",", "!", "?"}
            SingleSpaces ==
                /\ \A i \in 1..Len(text) : text[i] \notin {"\t", "\n", "\r"}
                /\ \A i \in 1..(Len(text) - 1) : ~(text[i] = " " /\ text[i+1] = " ")
        IN  /\ SelectSeq(out, IsCommaBangQuestion) = SelectSeq(text, IsCommaBangQuestion)
            /\ SingleSpaces => out = trim(toLowerCase(text))

(***************************************************************************)
(* Properties of checkTextSafety (SpecCalls, SpecHistories) and of the     *)
(* safety gate of handleAnalyze (Spec).                                    *)
(***************************************************************************)
\* t has a character outside word characters, whitespace and . , ! ? -
ContainsSpecialChar(t) ==
    \E i \in 1..Len(t) :
        ~(IsWordChar(t[i]) \/ IsSpace(t[i]) \/ t[i] \in {".", ",", "!", "?", "-"})

\* t has the scheme javascript:
ContainsJavascriptScheme(t) ==
    \E i \in 1..Len(t) :
        /\ i + 10 <= Len(t)
        /\ SubSeq(t, i, i + 10) = <<"j","a","v","a","s","c","r","i","p","t",":">>

\* C1: every call of checkTextSafety, whatever was called before, returns
\* isSafe=false with a message for a text with an HTML tag or a URL, else
\* isSafe=true with an advisory message for a text with a special character,
\* else isSafe=true with the empty message.
C1_SafetyOfEveryCall ==
    op = "checkTextSafety" =>
        IF ContainsHtmlTag(text) \/ ContainsUrl(text)
        THEN ~out.isSafe /\ out.message # NoMessage
        ELSE IF ContainsSpecialChar(text)
        THEN out.isSafe /\ out.message # NoMessage
        ELSE out.isSafe /\ out.message = NoMessage

\* C2: no handleAnalyze invocation whose trimmed text has an HTML tag or an
\* http(s) URL invokes an analysis function; when the text passes validation
\* the invocation shows the safety error.
C2_UnsafeTextNeverAnalyzed ==
    (op = "handleAnalyze"
        /\ (ContainsHtmlTag(trim(textarea)) \/ ContainsUrl(trim(textarea)))) =>
        /\ invoked = {}
        /\ validateText(trim(textarea)).isValid =>
              error = [show |-> TRUE, textContent |-> UnsafeMessage]

\* C3: a core function called with the same text after two different
\* histories of calls returns the same result in both.
C3_SameResultInBothHistories ==
    op \in CoreFunctions => out = out2

\* C8: checkTextSafety returns isSafe=false for a text with a javascript:
\* scheme, also when it has no HTML tag and no http(s) URL.
C8_JavascriptSchemeUnsafe ==
    (op = "checkTextSafety" /\ ContainsJavascriptScheme(text)) => ~out.isSafe


(***************************************************************************)
(* SpecTruncate: truncateText applied to the texts of its tests, cut at     *)
(* every length, with every maxLength in -MaxMaxLength..MaxMaxLength.       *)
(***************************************************************************)
TruncateTestTexts ==
    [long |-> <<"T","h","i","s"," ","i","s"," ","a"," ","l","o","n","g"," ","t","e",
                "x","t"," ","t","h","a","t"," ","n","e","e","d","s"," ","t","o"," ",
                "b","e"," ","t","r","u","n","c","a","t","e","d",".">>,
     short |-> <<"S","h","o","r","t"," ","t","e","x","t">>,
     any |-> <<"A","n","y"," ","t","e","x","t">>]

InitTruncate ==
    /\ text \in {SubSeq(TruncateTestTexts.long, 1, n) :
                        n \in 0..Len(TruncateTestTexts.long)}
                    \cup {TruncateTestTexts.short, TruncateTestTexts.any}
    /\ length = Len(text)
    /\ args \in {<<maxLength>> : maxLength \in (0 - MaxMaxLength)..MaxMaxLength}
    /\ regs = NoRegs /\ regs2 = NoRegs
    /\ op = "none" /\ out = <<>> /\ out2 = <<>>
    /\ InitUI

CallTruncateText ==
    /\ op' = "truncateText"
    /\ out' = truncateText(text, args[1])
    /\ UNCHANGED <<text, length, args, regs, regs2, out2, uiVars>>

SpecTruncate == InitTruncate /\ [][op = "none" /\ CallTruncateText]_vars

\* C11: truncateText returns the text unchanged when text.length <= maxLength;
\* otherwise the result has exactly maxLength characters and ends with '...'
\* (the ellipsis is counted inside the limit), and for maxLength <= 0 and a
\* non-empty text the result is exactly '...'.
C11_TruncateWithinLimit ==
    op = "truncateText" =>
        LET maxLength == args[1]
        IN  /\ Len(text) <= maxLength => out = text
            /\ (Len(text) > maxLength /\ maxLength >= 3) =>
                  /\ Len(out) = maxLength
                  /\ SubSeq(out, Len(out) - 2, Len(out)) = Ellipsis
            /\ (maxLength <= 0 /\ text # <<>>) => out = Ellipsis


(***************************************************************************)
(* SpecMetrics: calculateBasicMetrics applied to the texts of its tests    *)
(* and to every concatenation of at most MaxChunks chunks.                 *)
(***************************************************************************)
MetricTestTexts ==
    [simple |-> <<"H","e","l","l","o"," ","w","o","r","l","d","."," ",
                  "T","h","i","s"," ","i","s"," ","a"," ","t","e","s","t",".">>,
     paragraphs |-> <<"F","i","r","s","t"," ","p","a","r","a","g","r","a","p","h",
                      ".","\n","\n","S","e","c","o","n","d"," ","p","a","r","a",
                      "g","r","a","p","h",".","\n","\n","T","h","i","r","d"," ",
                      "p","a","r","a","g","r","a","p","h",".">>]

InitMetrics ==
    /\ text \in Texts({<<"a">>, <<"B","c">>, <<"1">>, <<" ">>, <<"\t">>, <<"\n">>,
                       <<".">>, <<"?">>, <<"-">>}, MaxChunks)
                    \cup {MetricTestTexts.simple, MetricTestTexts.paragraphs}
    /\ length = Len(text)
    /\ args = <<>>
    /\ regs = NoRegs /\ regs2 = NoRegs
    /\ op = "none" /\ out = <<>> /\ out2 = <<>>
    /\ InitUI

CallCalculateBasicMetrics ==
    /\ op' = "calculateBasicMetrics"
    /\ out' = calculateBasicMetrics(text)
    /\ UNCHANGED <<text, length, args, regs, regs2, out2, uiVars>>

SpecMetrics == InitMetrics /\ [][op = "none" /\ CallCalculateBasicMetrics]_vars

\* C12: for every text calculateBasicMetrics returns charCount >=
\* charNoSpacesCount >= 0 and non-negative wordCount, sentenceCount and
\* paragraphCount; when wordCount is 0 the avgWordLength is the number 0; for
\* the empty text sentenceCount and paragraphCount are 0, not 1.
C12_MetricsInvariants ==
    op = "calculateBasicMetrics" =>
        /\ out.charCount >= out.charNoSpacesCount
        /\ out.charNoSpacesCount >= 0
        /\ out.wordCount >= 0
        /\ out.sentenceCount >= 0
        /\ out.paragraphCount >= 0
        /\ out.wordCount = 0 =>
              (out.avgWordLength.type = "number" /\ out.avgWordLength.value = 0)
        /\ text = <<>> => (out.sentenceCount = 0 /\ out.paragraphCount = 0)

\* the metrics of the empty text
C12_Witness ==
    /\ op = "calculateBasicMetrics"
    /\ text = <<>>
    /\ out.wordCount = 0
    /\ out.sentenceCount = 0
    /\ out.paragraphCount = 0
    /\ out.avgWordLength.type = "number"

SyllableTestTexts ==
    [hello |-> <<"h","e","l","l","o">>,
     world |-> <<"w","o","r","l","d">>,
     beautiful |-> <<"b","e","a","u","t","i","f","u","l">>,
     extraordinary |-> <<"e","x","t","r","a","o","r","d","i","n","a","r","y">>,
     helloWorld |-> <<"h","e","l","l","o",","," ","w","o","r","l","d","!">>]

InitSyllables ==
    /\ text \in Texts({<<"t","a","b">>, <<"t","s">>, <<"e","a">>, <<"y">>, <<"l">>,
                       <<"e">>, <<"s">>, <<"d">>, <<"A">>, <<" ">>, <<",">>, <<"1">>},
                      MaxChunks)
                    \cup {SyllableTestTexts[t] : t \in DOMAIN SyllableTestTexts}
    /\ length = Len(text)
    /\ args = <<>>
    /\ regs = NoRegs /\ regs2 = NoRegs
    /\ op = "none" /\ out = <<>> /\ out2 = <<>>
    /\ InitUI

\* the callback of the reduce of countSyllables: its words are the matches
\* of /\b[a-z]+\b/g
CallCountSyllablesInWord ==
    /\ text # <<>>
    /\ \A i \in 1..Len(text) : text[i] \in LowerSet
    /\ op' = "countSyllablesInWord"
    /\ out' = countSyllablesInWord(text)
    /\ UNCHANGED <<text, length, args, regs, regs2, out2, uiVars>>

CallCountSyllables ==
    /\ op' = "countSyllables"
    /\ out' = countSyllables(text)
    /\ UNCHANGED <<text, length, args, regs, regs2, out2, uiVars>>

NextSyllables ==
    \/ op = "none" /\ CallCountSyllablesInWord
    \/ op = "none" /\ CallCountSyllables

SpecSyllables == InitSyllables /\ [][NextSyllables]_vars

\* the maximal runs of word characters of t that have letters only
AlphabeticTokens(t) ==
    {i \in 1..Len(t) :
        /\ i = 1 \/ ~IsWordChar(t[i-1])
        /\ \E e \in i..Len(t) :
              /\ \A k \in i..e : t[k] \in Range(LowerLetters) \cup Range(UpperLetters)
              /\ e = Len(t) \/ ~IsWordChar(t[e+1])}

\* C14: countSyllablesInWord returns a number, at least 1, for every
\* non-empty lower-case alphabetic word, and exactly 1 for every word of at
\* most 3 letters; countSyllables(text) is at least the number of purely
\* alphabetic word tokens of text, and 0 for the empty text.
C14_AtLeastOneSyllable ==
    /\ op = "countSyllablesInWord" =>
          /\ out \in Nat
          /\ out >= 1
          /\ Len(text) <= 3 => out = 1
    /\ op = "countSyllables" =>
          /\ out >= Cardinality(AlphabeticTokens(text))
          /\ text = <<>> => out = 0

\* tsls has more than 3 letters, none of them a vowel
C14_Witness ==
    /\ op = "countSyllablesInWord"
    /\ text = <<"t","s","l","s">>
    /\ out = 1

\* the word without the ending that countSyllablesInWord strips, where the
\* letters of notConsonants do not count as the consonant of the ending
StripEnding(word, notConsonants) ==
    LET n == Len(word)
    IN  IF n >= 3 /\ word[n-2] \notin notConsonants /\ word[n-1] = "e" /\ word[n] = "s"
        THEN SubSeq(word, 1, n - 3)
        ELSE IF n >= 2 /\ word[n-1] = "e" /\ word[n] = "d"
        THEN SubSeq(word, 1, n - 2)
        ELSE IF n >= 2 /\ word[n-1] \notin notConsonants /\ word[n] = "e"
        THEN SubSeq(word, 1, n - 2)
        ELSE word

\* the vowel groups of a stripped word: a leading y does not count, a run of
\* vowels counts once for every two of its letters, no group counts as one
VowelGroups(stem) ==
    LET w == IF stem # <<>> /\ stem[1] = "y" THEN Tail(stem) ELSE stem
        \* the vowels of w that start a group: an even number of vowels
        \* of the same run come before them
        starts == {i \in 1..Len(w) :
                      /\ IsVowel(w[i])
                      /\ \E j \in 0..(i-1) :
                            /\ j = 0 \/ ~IsVowel(w[j])
                            /\ \A k \in (j+1)..(i-1) : IsVowel(w[k])
                            /\ (i - 1 - j) % 2 = 0}
    IN  IF starts = {} THEN 1 ELSE Cardinality(starts)

\* C15: for every word longer than 3 letters countSyllablesInWord strips,
\* before it counts the vowel groups, a trailing 'ed', a trailing consonant
\* + 'es' or a trailing consonant + 'e', where a consonant is any letter
\* other than a, e, i, o, u, y: 'l' counts as a consonant and a final '-le'
\* or '-les' is stripped.
C15_StripsConsonantE ==
    (op = "countSyllablesInWord" /\ Len(text) > 3) =>
        out = VowelGroups(StripEnding(text, {"a", "e", "i", "o", "u", "y"}))

\* C15 as amended: the consonant of the stripped endings is any letter other
\* than l, a, e, i, o, u, y: a final '-le' or '-les' is not stripped.
C15_StripsConsonantEButNotLe ==
    (op = "countSyllablesInWord" /\ Len(text) > 3) =>
        out = VowelGroups(StripEnding(text, {"l", "a", "e", "i", "o", "u", "y"}))

\* tabes loses its bes and has the one vowel group of ta
C15_Witness ==
    /\ op = "countSyllablesInWord"
    /\ text = <<"t","a","b","e","s">>
    /\ out = 1

\* C16: countSyllables returns 2 for 'hello', 1 for 'world', 3 for
\* 'beautiful', 6 for 'extraordinary' and 3 for 'hello, world!'.
C16_SyllablesOfTheTests ==
    op = "countSyllables" =>
        /\ text = SyllableTestTexts.hello => out = 2
        /\ text = SyllableTestTexts.world => out = 1
        /\ text = SyllableTestTexts.beautiful => out = 3
        /\ text = SyllableTestTexts.extraordinary => out = 6
        /\ text = SyllableTestTexts.helloWorld => out = 3


(***************************************************************************)
(* SpecReadability: the three readability formulas applied to every        *)
(* triple of counts in 0..MaxCount.                                        *)
(***************************************************************************)
InitReadability ==
    /\ args \in {<<a, b, c>> : a \in 0..MaxCount, b \in 0..MaxCount, c \in 0..MaxCount}
    /\ text = <<>>
    /\ length = 0
    /\ regs = NoRegs /\ regs2 = NoRegs
    /\ op = "none" /\ out = <<>> /\ out2 = <<>>
    /\ InitUI

CallCalculateFleschReadingEase ==
    /\ op' = "calculateFleschReadingEase"
    /\ out' = calculateFleschReadingEase(args[1], args[2], args[3])
    /\ UNCHANGED <<text, length, args, regs, regs2, out2, uiVars>>

CallCalculateFleschKincaidGrade ==
    /\ op' = "calculateFleschKincaidGrade"
    /\ out' = calculateFleschKincaidGrade(args[1], args[2], args[3])
    /\ UNCHANGED <<text, length, args, regs, regs2, out2, uiVars>>

CallCalculateColemanLiauIndex ==
    /\ op' = "calculateColemanLiauIndex"
    /\ out' = calculateColemanLiauIndex(args[1], args[2], args[3])
    /\ UNCHANGED <<text, length, args, regs, regs2, out2, uiVars>>

NextReadability ==
    \/ op = "none" /\ CallCalculateFleschReadingEase
    \/ op = "none" /\ CallCalculateFleschKincaidGrade
    \/ op = "none" /\ CallCalculateColemanLiauIndex

SpecReadability == InitReadability /\ [][NextReadability]_vars

\* C17: calculateFleschReadingEase, calculateFleschKincaidGrade and
\* calculateColemanLiauIndex each return exactly 0 whenever wordCount is 0 or
\* sentenceCount is 0, whatever the remaining arguments, and a finite number
\* for all non-negative integer arguments.
C17_ZeroOnEmptyCounts ==
    /\ op \in {"calculateFleschReadingEase", "calculateFleschKincaidGrade"} =>
          /\ out.den # 0
          /\ (args[1] = 0 \/ args[2] = 0) => (out.num = 0 /\ out.den = 1)
    /\ op = "calculateColemanLiauIndex" =>
          /\ out.den # 0
          /\ (args[2] = 0 \/ args[3] = 0) => (out.num = 0 /\ out.den = 1)

\* words and syllables but no sentence
C17_Witness ==
    /\ op = "calculateFleschReadingEase"
    /\ args = <<3, 0, 2>>
    /\ out.num = 0
    /\ out.den = 1

(***************************************************************************)
(* SpecGrade: determineGradeLevel applied to every pair of half grades in  *)
(* -2..MaxGrade.                                                           *)
(***************************************************************************)
InitGrade ==
    /\ args \in {<<Ratio(a, 2), Ratio(b, 2)>> :
                    a \in (-4)..(2 * MaxGrade), b \in (-4)..(2 * MaxGrade)}
    /\ text = <<>>
    /\ length = 0
    /\ regs = NoRegs /\ regs2 = NoRegs
    /\ op = "none" /\ out = <<>> /\ out2 = <<>>
    /\ InitUI

CallDetermineGradeLevel ==
    /\ op' = "determineGradeLevel"
    /\ out' = determineGradeLevel(args[1], args[2])
    /\ UNCHANGED <<text, length, args, regs, regs2, out2, uiVars>>

SpecGrade == InitGrade /\ [][op = "none" /\ CallDetermineGradeLevel]_vars

\* the English ordinals of the grades
Ordinals ==
    <<"1st", "2nd", "3rd", "4th", "5th", "6th", "7th", "8th", "9th", "10th",
      "11th", "12th">>

\* C18: determineGradeLevel(fk, cl) rounds the average (fk + cl) / 2 to the
\* nearest integer n and returns 'Kindergarten' when n <= 0, 'College level'
\* when n >= 13, and otherwise the English ordinal of n followed by
\* ' grade': 1st, 2nd, 3rd, 4th to 10th, 11th and 12th.
C18_GradeLevelNames ==
    op = "determineGradeLevel" =>
        LET sum == Plus(args[1], args[2])
            \* n - 1/2 <= sum / 2 < n + 1/2
            n == CHOOSE n \in (-3)..(MaxGrade + 1) :
                    /\ (2 * n - 1) * sum.den <= sum.num
                    /\ sum.num < (2 * n + 1) * sum.den
        IN  out = IF n <= 0 THEN "Kindergarten"
                  ELSE IF n >= 13 THEN "College level"
                  ELSE Ordinals[n] \o " grade"

\* an average of 11.25 is the 11th grade
C18_Witness ==
    /\ op = "determineGradeLevel"
    /\ args = <<Ratio(21, 2), Ratio(12, 1)>>
    /\ out = "11th grade"


(***************************************************************************)
(* SpecWords: analyzeSentiment and analyzeWordFrequency applied to the     *)
(* texts of their tests and to every concatenation of at most MaxChunks    *)
(* chunks, the latter with every minLength and maxWords in the bounds.     *)
(***************************************************************************)
WordTestTexts ==
    {<<"T","h","i","s"," ","i","s"," ","a"," ","g","r","e","a","t"," ","a",
       "n","d"," ","w","o","n","d","e","r","f","u","l"," ","p","r","o","d",
       "u","c","t","!">>,
     <<"T","h","i","s"," ","i","s"," ","a"," ","t","e","r","r","i","b","l",
       "e"," ","a","n","d"," ","a","w","f","u","l"," ","p","r","o","d","u",
       "c","t","!">>,
     <<"T","h","i","s"," ","i","s"," ","a"," ","p","r","o","d","u","c","t",
       ".">>,
     <<"t","h","e"," ","t","h","e"," ","t","h","e"," ","q","u","i","c","k",
       " ","b","r","o","w","n"," ","f","o","x"," ","j","u","m","p","s"," ",
       "o","v","e","r"," ","t","h","e"," ","l","a","z","y"," ","d","o","g">>,
     <<"a"," ","a","n"," ","t","h","e"," ","q","u","i","c","k"," ","b","r",
       "o","w","n"," ","f","o","x">>,
     <<"w","o","r","d","1"," ","w","o","r","d","2"," ","w","o","r","d","3",
       " ","w","o","r","d","4"," ","w","o","r","d","5"," ","w","o","r","d",
       "6">>}

InitWords ==
    /\ text \in Texts({<<"g","o","o","d"," ">>, <<"B","a","d">>, <<"H","A","T","E","\n">>,
                       <<"t","h","e"," ">>, <<"o","n"," ">>, <<"a">>, <<" ">>, <<",">>},
                      MaxChunks)
                    \cup WordTestTexts
    /\ length = Len(text)
    /\ args = <<>>
    /\ regs = NoRegs /\ regs2 = NoRegs
    /\ op = "none" /\ out = <<>> /\ out2 = <<>>
    /\ InitUI

CallAnalyzeSentiment ==
    /\ op' = "analyzeSentiment"
    /\ out' = analyzeSentiment(text)
    /\ UNCHANGED <<text, length, args, regs, regs2, out2, uiVars>>

CallAnalyzeWordFrequency ==
    \E minLength \in 0..MaxMinLength, maxWords \in (0 - MaxWords)..MaxWords :
        /\ op' = "analyzeWordFrequency"
        /\ args' = <<minLength, maxWords>>
        /\ out' \in analyzeWordFrequency(text, minLength, maxWords)
        /\ UNCHANGED <<text, length, regs, regs2, out2, uiVars>>

NextWords ==
    \/ op = "none" /\ CallAnalyzeSentiment
    \/ op = "none" /\ CallAnalyzeWordFrequency

SpecWords == InitWords /\ [][NextWords]_vars

\* the words of t (maximal runs of word characters) that are, in lower
\* case, in the lexicon
TokensIn(t, lexicon) ==
    {i \in 1..Len(t) :
        /\ IsWordChar(t[i])
        /\ i = 1 \/ ~IsWordChar(t[i-1])
        /\ \E e \in i..Len(t) :
              /\ \A k \in i..e : IsWordChar(t[k])
              /\ e = Len(t) \/ ~IsWordChar(t[e+1])
              /\ \E w \in 1..Len(lexicon) : lexicon[w] = toLowerCase(SubSeq(t, i, e))}

\* t with its lower-case letters in upper case
UpperCased(t) ==
    [i \in 1..Len(t) |->
        IF \E k \in 1..26 : LowerLetters[k] = t[i]
        THEN UpperLetters[CHOOSE k \in 1..26 : LowerLetters[k] = t[i]]
        ELSE t[i]]

\* C19: for every text analyzeSentiment returns positiveCount >= 0 and
\* negativeCount >= 0, the numbers of normalized word tokens found in the
\* positive and in the negative lexicon, score = positiveCount -
\* negativeCount, and the sentiment 'positive', 'negative' or 'neutral' as
\* the score is above, below or equal to 0; the empty text gives neutral with
\* counts and score 0; the result does not depend on the letter case.
C19_SentimentCounts ==
    op = "analyzeSentiment" =>
        /\ out.positiveCount >= 0
        /\ out.negativeCount >= 0
        /\ out.positiveCount = Cardinality(TokensIn(text, SENTIMENT_WORDS.positive))
        /\ out.negativeCount = Cardinality(TokensIn(text, SENTIMENT_WORDS.negative))
        /\ out.score = out.positiveCount - out.negativeCount
        /\ out.score > 0 => out.sentiment = "positive"
        /\ out.score < 0 => out.sentiment = "negative"
        /\ out.score = 0 => out.sentiment = "neutral"
        /\ text = <<>> => (out.positiveCount = 0 /\ out.negativeCount = 0)
        /\ analyzeSentiment(toLowerCase(text)) = out
        /\ analyzeSentiment(UpperCased(text)) = out

\* a negative and a positive word, the first with an upper-case letter
C19_Witness ==
    /\ op = "analyzeSentiment"
    /\ text = <<"B","a","d",",","g","o","o","d"," ">>
    /\ out.negativeCount = 1
    /\ out.positiveCount = 1
    /\ out.sentiment = "neutral"

\* C20: for every text and every integer minLength and maxWords, maxWords <=
\* 0 included, analyzeWordFrequency(text, minLength, maxWords) returns at
\* most maxWords entries (none when maxWords <= 0), every returned word is
\* lower-case and longer than minLength, and no word appears twice.
C20_WordFrequencyLimits ==
    op = "analyzeWordFrequency" =>
        LET minLength == args[1]
            maxWords == args[2]
        IN  /\ Len(out) <= (IF maxWords < 0 THEN 0 ELSE maxWords)
            /\ \A i \in 1..Len(out) :
                  /\ out[i][1] = toLowerCase(out[i][1])
                  /\ Len(out[i][1]) > minLength
                  /\ \A j \in 1..Len(out) : out[j][1] = out[i][1] => j = i

(***************************************************************************)
(* SpecFrequency: analyzeWordFrequency applied to the texts of its tests   *)
(* and to every concatenation of at most MaxChunks chunks, among them      *)
(* words made of digits and the lower-case names of Object.prototype.      *)
(***************************************************************************)
InitFrequency ==
    /\ text \in Texts({<<"2","0","0"," ">>, <<"1","0","0"," ">>, <<"0","0","7"," ">>,
                       <<"t","h","e"," ">>, <<"o","n"," ">>,
                       ObjectPrototype.constructor \o <<" ">>,
                       ObjectPrototype.proto \o <<" ">>},
                      MaxChunks)
                    \cup WordTestTexts
    /\ length = Len(text)
    /\ args = <<>>
    /\ regs = NoRegs /\ regs2 = NoRegs
    /\ op = "none" /\ out = <<>> /\ out2 = <<>>
    /\ InitUI

SpecFrequency == InitFrequency /\ [][op = "none" /\ CallAnalyzeWordFrequency]_vars

\* the place of the first occurrence of word among the tokens
FirstOccurrence(tokens, word) ==
    CHOOSE i \in 1..Len(tokens) :
        tokens[i] = word /\ \A j \in 1..(i-1) : tokens[j] # word

\* the entries are in descending order of their counts, which are numbers,
\* and entries with equal counts in the order of the first occurrences
SortedByCount(entries, tokens) ==
    \A i, j \in 1..Len(entries) :
        i < j =>
            /\ entries[i][2].type = "number"
            /\ entries[j][2].type = "number"
            /\ entries[i][2].value >= entries[j][2].value
            /\ entries[i][2].value = entries[j][2].value
               => FirstOccurrence(tokens, entries[i][1]) < FirstOccurrence(tokens, entries[j][1])

\* C21: the sequence returned by analyzeWordFrequency is sorted by count in
\* descending order, and words with equal counts appear in the order of their
\* first occurrence in the text, for every kind of word token, tokens made
\* only of digits included ('200' before '100' when '200' occurs first).
C21_SortedByCountStable ==
    op = "analyzeWordFrequency" =>
        SortedByCount(out, StringMatch("WORD_REGEX", normalizeText(text)))

\* every entry has a number as count, the number of occurrences of its word
\* among the tokens
CountsOccurrences(entries, tokens) ==
    \A i \in 1..Len(entries) :
        /\ entries[i][2].type = "number"
        /\ entries[i][2].value =
               Cardinality({k \in 1..Len(tokens) : tokens[k] = entries[i][1]})

\* every token longer than minLength has an entry
EveryTokenCounted(entries, tokens, minLength) ==
    \A k \in 1..Len(tokens) :
        Len(tokens[k]) > minLength => \E i \in 1..Len(entries) : entries[i][1] = tokens[k]

\* C22: every pair (word, count) returned by analyzeWordFrequency has an
\* integer count equal to the number of occurrences of word among the
\* normalized word tokens of the text, for every token the tokenizer can
\* produce ('the' has count 4 in 'the the the quick brown fox jumps over the
\* lazy dog'), and every token longer than minLength is counted: it has an
\* entry unless maxWords cut the result.
C22_CountsAreOccurrences ==
    op = "analyzeWordFrequency" =>
        /\ CountsOccurrences(out, StringMatch("WORD_REGEX", normalizeText(text)))
        /\ Len(out) < args[2] =>
               EveryTokenCounted(out, StringMatch("WORD_REGEX", normalizeText(text)), args[1])

(***************************************************************************)
(* FairSpec: the application when the event loop does its part: time       *)
(* passes, every timeout that is due runs, and animationend is dispatched  *)
(* whenever the results element is displayed and a listener waits for it.  *)
(* Nothing obliges the user to act.                                        *)
(***************************************************************************)
FairSpec ==
    /\ Spec
    /\ WF_vars(Elapse(NextDue(timers)))
    /\ WF_vars(DebounceTimeout)
    /\ WF_vars(ErrorAutoHide)
    /\ WF_vars(AnimationEnd)

\* C23: every handleAnalyze invocation that passes validation and the safety
\* check and shows the loading state eventually reaches its finally block,
\* which hides the loading spinner and the progress bar.
C23_LoadingEventuallyHidden ==
    (op = "handleAnalyze" /\ loading) ~> ~loading

\* C25: from handleClear until the next event of the user the textarea is
\* empty, the Analyze button is disabled and no error message is displayed,
\* whichever timeouts were pending when handleClear ran.
C25_ClearedUntilNextEvent ==
    event = "clear" =>
        /\ textarea = <<>>
        /\ analyzeBtn.disabled
        /\ ~error.show

\* C26: the paragraphCount that handleAnalyze hands to updateResults is the
\* number of non-empty fragments of the textarea's value split on blank lines.
C26_ParagraphsOfInput ==
    (op = "handleAnalyze" /\ invoked # {}) =>
        analysis.paragraphCount =
            Len(FilterBoolean(StringSplit("PARAGRAPH_BREAK_REGEX", textarea)))

\* C27: when the debounced validation has just enabled the Analyze button for
\* the value the textarea holds, a handleAnalyze invocation on that value
\* passes its own validation: it shows no validation error.
C27_EnabledImpliesAnalyzable ==
    [][(/\ op = "validate"
        /\ text = textarea
        /\ ~analyzeBtn.disabled
        /\ op' = "handleAnalyze")
       => ~(error'.show /\ error'.textContent = validateText(trim(textarea)).message)]_vars

(***************************************************************************)
(* SpecDebounce: input events on the textarea at any distance in time that *)
(* is a multiple of a third of DEBOUNCE_DELAY, the debounced validation    *)
(* and the timeouts of the error message.                                  *)
(***************************************************************************)
NextDebounce ==
    \/ UserInput
    \/ DebounceTimeout
    \/ ErrorAutoHide
    \/ \E d \in {(DEBOUNCE_DELAY \div 3), NextDue(timers)} : Elapse(d)

SpecDebounce == Init /\ [][NextDebounce]_vars

\* C24: the debounced callback validates the text of the latest input event,
\* DEBOUNCE_DELAY after that event: the timeout that runs is due, it is the
\* one the latest input event set (no other is pending, every earlier one was
\* cleared) and it closed over the value the textarea still has; after it the
\* Analyze button is enabled exactly when that text is valid and the error
\* message is shown exactly when it is not.
C24_DebouncedValidation ==
    [][op' = "validate" =>
        /\ \E i \in Due(timers) :
              /\ timers[i].callback = "validate"
              /\ timers[i].text = text'
              /\ timers[i].delay = DEBOUNCE_DELAY
        /\ TimersOf(timers', "validate") = {}
        /\ text' = textarea'
        /\ analyzeBtn'.disabled = ~validateText(textarea').isValid
        /\ error'.show = ~validateText(textarea').isValid]_vars

\* two input events 100 ms apart, the second with a valid text, were followed
\* by one validation, of the second text, after an earlier validation of an
\* invalid text had shown its message
C24_Witness ==
    /\ op = "validate"
    /\ text = textarea
    /\ Len(text) >= MIN_TEXT_LENGTH
    /\ ~analyzeBtn.disabled
    /\ ~error.show
    /\ \E i \in TimersOf(timers, "hideError") :
          timers[i].remaining = AUTO_HIDE_DELAY - DEBOUNCE_DELAY - (DEBOUNCE_DELAY \div 3)

\* C28: the message of the latest showError call stays visible until its own
\* 5 seconds have passed: when a timeout of showError hides a visible
\* message, the timeout that the latest showError call set is due.
C28_LatestMessageKeepsItsTime ==
    [][(op' = "errorTimer" /\ error.show) =>
          \A i \in TimersOf(timers, "hideError") :
              (\A j \in TimersOf(timers, "hideError") : j <= i)
                  => timers[i].remaining = 0]_vars

(***************************************************************************)
(* SpecTheme: the page is loaded with any saved theme under any system     *)
(* colour scheme; the user toggles the theme and types, and the system     *)
(* changes its colour scheme.                                              *)
(***************************************************************************)
InitTheme ==
    /\ InitCalls
    /\ InitPage
    /\ \E savedTheme \in {"null", "light", "dark"}, prefersDark \in BOOLEAN :
          theme = ThemeManagerInitialize(savedTheme, prefersDark)

\* ThemeManager.toggle, called by handleThemeToggle
toggle(current) ==
    setTheme(current, IF current.dataTheme = "light" THEN "dark" ELSE "light")

handleThemeToggle ==
    /\ theme' = [toggle(theme) EXCEPT !.toggled = TRUE]
    /\ op' = "handleThemeToggle"
    /\ UNCHANGED <<callVars, textarea, event, timers, analyzeBtn, invoked,
                   analysis, error, loading, results, awaiting>>

\* the change event of matchMedia('(prefers-color-scheme: dark)') and the
\* listener that initialize added
SystemThemeChange ==
    /\ theme' = IF theme.storage = "null"
                THEN setTheme([theme EXCEPT !.prefersDark = ~@],
                              IF ~theme.prefersDark THEN "dark" ELSE "light")
                ELSE [theme EXCEPT !.prefersDark = ~@]
    /\ op' = "systemThemeChange"
    /\ UNCHANGED <<callVars, textarea, event, timers, analyzeBtn, invoked,
                   analysis, error, loading, results, awaiting>>

NextTheme ==
    \/ handleThemeToggle
    \/ SystemThemeChange
    \/ UserActs /\ UserInput
    \/ DebounceTimeout
    \/ ErrorAutoHide
    \/ Elapse(NextDue(timers))

SpecTheme == InitTheme /\ [][NextTheme]_vars

\* C29: after initialize found no saved theme, and while the user has not
\* toggled the theme, a change of the system's colour scheme sets data-theme
\* to the new preference; data-theme always equals the stored theme; a toggle
\* switches between light and dark, so that two toggles restore the theme.
C29_ThemeFollowsSystem ==
    /\ [][(op' = "systemThemeChange" /\ theme.saved = "null" /\ ~theme.toggled)
            => theme'.dataTheme = (IF theme'.prefersDark THEN "dark" ELSE "light")]_vars
    /\ [](theme.dataTheme = theme.storage)
    /\ [][op' = "handleThemeToggle"
            => /\ {theme.dataTheme, theme'.dataTheme} = {"light", "dark"}
               /\ toggle(toggle(theme)).dataTheme = theme.dataTheme]_vars
====
